---- MODULE Spec2Model ----
(***************************************************************************)
(* The question-answering tutorial of ezua-tutorials as a state machine:   *)
(* notebook 01 (load, chunk, embed, store, query), notebook 02/03 (log the *)
(* store, serve and invoke it), notebook 04/05 (the LLM inference service  *)
(* with its transformer), the MLflow experiment helper and the             *)
(* bike-sharing notebook (grid search, tracked runs, best model, deploy).  *)
(*                                                                         *)
(* Text is a sequence of one-character strings.  Library calls made by the *)
(* notebooks (RecursiveCharacterTextSplitter, Chroma, HuggingFace          *)
(* embeddings, mlflow, requests) are modelled at their call sites by what  *)
(* the call computes.                                                      *)
(***************************************************************************)
EXTENDS Integers, Sequences, FiniteSets, TLC

VARIABLES
    pc01,            \* position in notebook 01
    docs,            \* load_docs result: sequence of [page_content, source]
    chunk_size,      \* process_docs argument
    chunk_overlap,   \* process_docs argument
    texts,           \* process_docs result: sequence of [page_content, source]
    embed_fn,        \* what the embedding model computes: text -> vector
    embeddings,      \* the HuggingFaceEmbeddings object of notebook 01
    db_index,        \* entries of the Chroma collection held by db
    db_embedding,    \* the embedding function db was built with
    db_dir,          \* the persisted ./db directory
    query,           \* last query of notebook 01: [text, k, embedding]
    matches,         \* result of db.similarity_search
    pc02,            \* position in notebook 02
    mlflow_call,     \* what mlflow.set_experiment did in notebook 02
    result02,        \* how get_or_create_experiment ended
    artifact_db,     \* the db directory as logged to MLflow
    uri,             \* mlflow.get_artifact_uri("db")
    predictor_image, \* image name chosen in notebook 02
    manifest_file,   \* vectorstore-isvc.yaml
    served_index,    \* the index the vectorstore service answers from
    pc03,            \* position in notebook 03
    vs_request,      \* the predict request notebook 03 posts to the vectorstore service
    vs_response,     \* its response
    pcBike,          \* position in the bike-sharing notebook
    bike_call,       \* what mlflow.set_experiment did in the bike-sharing notebook
    bike_result,     \* how set_experiment ended
    pc05,            \* position in notebook 05, the client of the LLM service
    llm_request,     \* the instance posted by notebook 05
    client_posts,    \* requests.post calls made by notebook 05
    client_error,    \* exception raised by requests.post in notebook 05
    tr,              \* the transformer's state while it handles the request
    llm_response,    \* the response notebook 05 gets
    pcLoad,          \* position in the document-loading cell of notebook 01
    source_dir,      \* the files under the directory given to load_docs
    loaded,          \* the files load_docs has loaded documents from
    stdin,           \* what the user typed at each image prompt
    pc04,            \* position in notebook 04
    PREDICTOR_IMAGE, \* image names chosen in notebook 04
    TRANSFORMER_IMAGE,
    llm_manifest_file,   \* llm-isvc.yaml
    bike_manifest_file,  \* manifests/isvc.yaml
    applied,         \* what each kubectl apply was given: the path and the file there
    parameters,      \* the hyperparameter grid of the bike-sharing notebook
    runs_parameters, \* the parameter combinations generated from it
    loop_i,          \* i of the training loop
    runs,            \* the runs of the experiment in the tracking server, oldest first
    active,          \* mlflow.active_run(): position in runs, 0 when there is none
    started,         \* the runs the training loop has started
    model,           \* the model trained in the current iteration
    score_cv,        \* its cross-validation RMSLE
    model_artifacts, \* the files in the model_artifacts directory
    best_run,        \* position in runs of best_run, 0 while unassigned
    best_model_uri,
    best_model,
    bike_error,      \* the exception that ended a cell of the bike-sharing notebook
    calls            \* mlflow calls made by the best-model cell

chunkVars == <<docs, chunk_size, chunk_overlap>>
storeVars == <<embed_fn, embeddings, db_index, db_embedding, db_dir, query, matches>>
nb02Vars == <<pc02, mlflow_call, result02, artifact_db, uri, predictor_image,
              manifest_file, served_index>>
serviceVars == <<pc03, vs_request, vs_response>>
bikeVars == <<pcBike, bike_call, bike_result>>
routerVars == <<pc05, llm_request, client_posts, client_error, tr, llm_response>>
loadVars == <<pcLoad, source_dir, loaded>>
deployVars == <<stdin, pc04, PREDICTOR_IMAGE, TRANSFORMER_IMAGE, llm_manifest_file,
                bike_manifest_file, applied>>
trainVars == <<parameters, runs_parameters, loop_i, runs, active, started, model,
               score_cv, model_artifacts, best_run, best_model_uri, best_model,
               bike_error, calls>>
laterVars == <<loadVars, deployVars, trainVars>>
otherVars == <<bikeVars, routerVars, laterVars>>

vars == <<pc01, texts, chunkVars, storeVars, nb02Vars, serviceVars, otherVars>>

(***************************************************************************)
(* Bounds                                                                  *)
(***************************************************************************)
MaxDocLen == 3
MaxDocs == 1
MaxChunkSize == 3

Chars == {"a", " ", "\n"}
Whitespace == {" ", "\n"}

RECURSIVE StringsUpTo(_)
StringsUpTo(n) ==
    IF n = 0 THEN {<<>>}
    ELSE LET shorter == StringsUpTo(n - 1)
         IN  shorter \cup {Append(s, c) : s \in {t \in shorter : Len(t) = n - 1}, c \in Chars}

Min(S) == CHOOSE x \in S : \A y \in S : x <= y

(***************************************************************************)
(* Python string helpers                                                   *)
(***************************************************************************)
RECURSIVE lstrip(_)
lstrip(s) == IF s # <<>> /\ Head(s) \in Whitespace THEN lstrip(Tail(s)) ELSE s

RECURSIVE rstrip(_)
rstrip(s) ==
    IF s # <<>> /\ s[Len(s)] \in Whitespace THEN rstrip(SubSeq(s, 1, Len(s) - 1)) ELSE s

strip(s) == rstrip(lstrip(s))

Matches(text, sep, i) ==
    /\ i + Len(sep) - 1 <= Len(text)
    /\ SubSeq(text, i, i + Len(sep) - 1) = sep

Contains(text, sep) == \E i \in 1..Len(text) : Matches(text, sep, i)

RECURSIVE join(_, _)
join(separator, parts) ==
    IF parts = <<>> THEN <<>>
    ELSE IF Len(parts) = 1 THEN parts[1]
    ELSE parts[1] \o separator \o join(separator, Tail(parts))

NonEmpty(s) == s # <<>>

(***************************************************************************)
(* RecursiveCharacterTextSplitter(chunk_size, chunk_overlap), as           *)
(* process_docs builds it: default separators, separators kept at the      *)
(* start of the piece that follows them, length measured in characters.    *)
(***************************************************************************)
Separators == << <<"\n", "\n">>, <<"\n">>, <<" ">>, <<>> >>

\* the pieces of text between the leftmost non-overlapping matches of sep
RECURSIVE Pieces(_, _, _)
Pieces(text, sep, cur) ==
    IF text = <<>> THEN <<cur>>
    ELSE IF Matches(text, sep, 1)
         THEN <<cur>> \o Pieces(SubSeq(text, Len(sep) + 1, Len(text)), sep, <<>>)
         ELSE Pieces(Tail(text), sep, Append(cur, Head(text)))

split_text_with_regex(text, separator) ==
    LET raw ==
            IF separator # <<>>
            THEN LET p == Pieces(text, separator, <<>>)
                 IN  <<p[1]>> \o [i \in 1..(Len(p) - 1) |-> separator \o p[i + 1]]
            ELSE [i \in 1..Len(text) |-> <<text[i]>>]
    IN  SelectSeq(raw, NonEmpty)

\* None is the empty text: a chunk that strips to nothing is dropped
join_docs(current_doc, separator) == strip(join(separator, current_doc))

\* PopDoc with the loop left out: the pieces already emitted stay in current_doc
PopDocKeepAll(current_doc, total, len, sep_len, size, overlap) ==
    [current_doc |-> current_doc, total |-> total]

\* the inner while loop of _merge_splits: drop leading pieces of current_doc
RECURSIVE PopDoc(_, _, _, _, _, _)
PopDoc(current_doc, total, len, sep_len, size, overlap) ==
    IF \/ total > overlap
       \/ /\ total + len + (IF Len(current_doc) > 0 THEN sep_len ELSE 0) > size
          /\ total > 0
    THEN PopDoc(Tail(current_doc),
                total - (Len(current_doc[1]) + (IF Len(current_doc) > 1 THEN sep_len ELSE 0)),
                len, sep_len, size, overlap)
    ELSE [current_doc |-> current_doc, total |-> total]

RECURSIVE MergeLoop(_, _, _, _, _, _, _)
MergeLoop(splits, separator, size, overlap, docs_, current_doc, total) ==
    IF splits = <<>>
    THEN LET doc == join_docs(current_doc, separator)
         IN  IF doc # <<>> THEN Append(docs_, doc) ELSE docs_
    ELSE LET d == Head(splits)
             len == Len(d)
             sep_len == Len(separator)
             over == total + len + (IF Len(current_doc) > 0 THEN sep_len ELSE 0) > size
             flush == over /\ Len(current_doc) > 0
             doc == join_docs(current_doc, separator)
             docs1 == IF flush /\ doc # <<>> THEN Append(docs_, doc) ELSE docs_
             kept == IF flush
                     THEN PopDoc(current_doc, total, len, sep_len, size, overlap)
                     ELSE [current_doc |-> current_doc, total |-> total]
             current1 == Append(kept.current_doc, d)
             total1 == kept.total + len + (IF Len(current1) > 1 THEN sep_len ELSE 0)
         IN  MergeLoop(Tail(splits), separator, size, overlap, docs1, current1, total1)

merge_splits(splits, separator, size, overlap) ==
    MergeLoop(splits, separator, size, overlap, <<>>, <<>>, 0)

RECURSIVE SplitText(_, _, _, _)
RECURSIVE SplitLoop(_, _, _, _, _, _)

\* the loop of _split_text over the pieces: short pieces are collected and
\* merged, a piece of chunk_size or more is split again with the finer
\* separators, or kept as it is when none is left
SplitLoop(splits, new_separators, size, overlap, good_splits, final_chunks) ==
    IF splits = <<>>
    THEN IF good_splits # <<>>
         THEN final_chunks \o merge_splits(good_splits, <<>>, size, overlap)
         ELSE final_chunks
    ELSE LET s == Head(splits)
         IN  IF Len(s) < size
             THEN SplitLoop(Tail(splits), new_separators, size, overlap,
                            Append(good_splits, s), final_chunks)
             ELSE LET merged == IF good_splits # <<>>
                                THEN merge_splits(good_splits, <<>>, size, overlap)
                                ELSE <<>>
                      other == IF new_separators = <<>>
                               THEN <<s>>
                               ELSE SplitText(s, new_separators, size, overlap)
                  IN  SplitLoop(Tail(splits), new_separators, size, overlap,
                                <<>>, final_chunks \o merged \o other)

SplitText(text, separators, size, overlap) ==
    LET found == {i \in 1..Len(separators) :
                     separators[i] = <<>> \/ Contains(text, separators[i])}
        separator == IF found = {} THEN separators[Len(separators)]
                     ELSE separators[Min(found)]
        new_separators == IF found = {} \/ separator = <<>> THEN <<>>
                          ELSE SubSeq(separators, Min(found) + 1, Len(separators))
    IN  SplitLoop(split_text_with_regex(text, separator), new_separators,
                  size, overlap, <<>>, <<>>)

\* split_text with the one separator of a plain CharacterTextSplitter
split_text_one_separator(text, size, overlap) ==
    SplitText(text, << <<"\n", "\n">> >>, size, overlap)

split_text(text, size, overlap) == SplitText(text, Separators, size, overlap)

\* split_documents: every chunk of a document carries the document's metadata
RECURSIVE split_documents(_, _, _)
split_documents(ds, size, overlap) ==
    IF ds = <<>> THEN <<>>
    ELSE LET chunks == split_text(Head(ds).page_content, size, overlap)
         IN  [i \in 1..Len(chunks) |->
                 [page_content |-> chunks[i], source |-> Head(ds).source]]
             \o split_documents(Tail(ds), size, overlap)

process_docs(ds, size, overlap) == split_documents(ds, size, overlap)

(***************************************************************************)
(* Embeddings and the Chroma collection                                    *)
(***************************************************************************)
MaxChunks == 2
MaxCoord == 1
MaxK == 2

\* chunk texts and query texts of the store
Texts == {<<"a">>, <<"a", "\n", "a">>}
Vectors == 0..MaxCoord

\* values of what is not there yet
NoEmbeddings == [model_name |-> ""]
NoDirectory == [exists |-> FALSE, entries |-> <<>>]
NoQuery == [text |-> <<>>, k |-> 0, embedding |-> [vec |-> 0, model |-> ""]]
NoService == [up |-> FALSE, entries |-> <<>>]
NoRequest == [input |-> <<>>, num_docs |-> 0]
NoFile == [exists |-> FALSE, name |-> "", image |-> "", persist_uri |-> ""]
NotCalled == [raised |-> FALSE, class |-> "NotCalled", message |-> ""]

Directory(entries) == [exists |-> TRUE, entries |-> entries]

EmbeddingsModel == "all-MiniLM-L6-v2"

\* HuggingFaceEmbeddings(model_name=...)
HuggingFaceEmbeddings(model_name) == [model_name |-> model_name]

\* text.replace("\n", " "), applied to every text before it is encoded
replace_newlines(text) ==
    [i \in 1..Len(text) |-> IF text[i] = "\n" THEN " " ELSE text[i]]

\* the vector the model computes for a text
encode(text) == embed_fn[replace_newlines(text)]

\* embed_documents on one text / embed_query: the model's vector for the
\* text, together with the model that produced it
embed_document(emb, text) == [vec |-> encode(text), model |-> emb.model_name]

\* embed_query done by a model other than the one the store was built with
embed_query_other_model(emb, text) ==
    [vec |-> MaxCoord - encode(text), model |-> "paraphrase-MiniLM-L3-v2"]

embed_query(emb, text) == [vec |-> encode(text), model |-> emb.model_name]

\* Distance with the sign turned: the farthest entry ranks first
DistanceNegated(u, v) == (u - v) * (v - u)

\* squared Euclidean distance, the collection's default space
Distance(u, v) == (u - v) * (u - v)

\* Chroma.from_documents: one entry per chunk, embedded with the given
\* embedding function, appended to the collection under a fresh id
from_documents(index, chunks, emb) ==
    index \o [i \in 1..Len(chunks) |->
                 [id |-> Len(index) + i,
                  page_content |-> chunks[i].page_content,
                  source |-> chunks[i].source,
                  embedding |-> embed_document(emb, chunks[i].page_content)]]

\* Nearest without the ranking: the first m entries in insertion order
NearestUnsorted(index, remaining, qvec, m) ==
    {[i \in 1..(IF m < Len(index) THEN m ELSE Len(index)) |-> index[i]]}

\* the m nearest entries among `remaining`, nearest first; entries at the
\* same distance come in either order
RECURSIVE Nearest(_, _, _, _)
Nearest(index, remaining, qvec, m) ==
    IF m = 0 \/ remaining = {} THEN {<<>>}
    ELSE LET best == {i \in remaining : \A j \in remaining :
                         Distance(index[i].embedding.vec, qvec)
                             <= Distance(index[j].embedding.vec, qvec)}
         IN  UNION {{<<index[i]>> \o r : r \in Nearest(index, remaining \ {i}, qvec, m - 1)}
                    : i \in best}

\* db.similarity_search(text, k): the possible results
similarity_search(index, emb, text, k) ==
    Nearest(index, 1..Len(index), embed_query(emb, text).vec, k)

\* the count langchain's similarity_search takes when the call gives none
DEFAULT_K == 4

\* the number of results Chroma's own collection.query defaults to
CHROMA_N_RESULTS == 10

\* the call passing on no count, so that the collection's default applies
similarity_search_chroma_default(index, emb, text) ==
    similarity_search(index, emb, text, CHROMA_N_RESULTS)

\* db.similarity_search(text): the call without a count
similarity_search_default(index, emb, text) ==
    similarity_search(index, emb, text, DEFAULT_K)

StoreIdle ==
    /\ embed_fn \in [{replace_newlines(t) : t \in Texts} -> Vectors]
    /\ embeddings = NoEmbeddings
    /\ db_index = <<>>
    /\ db_embedding = NoEmbeddings
    /\ db_dir = NoDirectory
    /\ query = NoQuery
    /\ matches = <<>>

(***************************************************************************)
(* MLflow experiment helper                                                *)
(***************************************************************************)
ExceptionClasses == {"MlflowException", "ConnectionError", "KeyboardInterrupt"}

\* KeyboardInterrupt derives from BaseException only
IsException(class) == class \in {"MlflowException", "ConnectionError", "RuntimeError"}

Messages == {"", "timed out", "RESOURCE_DOES_NOT_EXIST"}

Returned == [raised |-> FALSE, class |-> "", message |-> ""]

\* what a call of mlflow.set_experiment can do
MlflowOutcomes ==
    {Returned} \cup
    {[raised |-> TRUE, class |-> c, message |-> m] : c \in ExceptionClasses, m \in Messages}

\* get_or_create_experiment that drops the text of the exception
get_or_create_experiment_no_text(exp_name, outcome) ==
    IF outcome.raised /\ IsException(outcome.class)
    THEN [raised |-> TRUE, class |-> "RuntimeError",
          message |-> "Failed to set the experiment: "]
    ELSE outcome

get_or_create_experiment(exp_name, outcome) ==
    IF outcome.raised /\ IsException(outcome.class)
    THEN [raised |-> TRUE, class |-> "RuntimeError",
          message |-> "Failed to set the experiment: " \o outcome.message]
    ELSE outcome

set_experiment(exp_name, outcome) ==
    IF outcome.raised /\ IsException(outcome.class)
    THEN [raised |-> TRUE, class |-> "RuntimeError",
          message |-> "Failed to set the experiment: " \o outcome.message]
    ELSE outcome

BikeIdle ==
    /\ pcBike = "set_experiment"
    /\ bike_call = NotCalled
    /\ bike_result = NotCalled

Nb02Start ==
    /\ artifact_db = NoDirectory
    /\ uri = ""
    /\ predictor_image = ""
    /\ manifest_file = NoFile
    /\ served_index = NoService
    /\ pc03 = "post"
    /\ vs_request = NoRequest
    /\ vs_response = <<>>

Nb02Idle ==
    /\ pc02 = "set_experiment"
    /\ mlflow_call = NotCalled
    /\ result02 = NotCalled
    /\ Nb02Start

\* notebook 02 after get_or_create_experiment has returned
Nb02ExperimentSet ==
    /\ pc02 = "log_artifact"
    /\ mlflow_call = Returned
    /\ result02 = Returned
    /\ Nb02Start

(***************************************************************************)
(* The LLM inference service: notebook 05 as client, the transformer in    *)
(* front of the predictor                                                  *)
(***************************************************************************)
MaxNumDocs == 2

Questions == {"Can a process running in a Linux Namespace communicate with another process running in another Namespace?",
              "How can I create a cgroup?"}
Contexts == {<<"a">>, <<"a", "a">>}
Generations == {"Yes.", "I don't know."}
Failures == {"ConnectionError", "Timeout"}

System == "You are an AI assistant. You will be given a task. You must generate a detailed answer."
Instruction == "Use the following pieces of context to answer the question at the end. If you don't know the answer, just say that you don't know, don't try to make up an answer."

NoInstance == [system |-> "", instruction |-> "", input |-> "", num_docs |-> 0]
NoPrompt == [system |-> "", instruction |-> "", context |-> <<>>, question |-> ""]
NoResponse == [status |-> "none", body |-> ""]

TransformerIdle ==
    [pc |-> "idle", steps |-> <<>>, query |-> "", posted |-> NoRequest, vs_calls |-> 0,
     context |-> <<>>, prompt |-> NoPrompt, forwarded |-> NoPrompt, llm_calls |-> 0,
     generation |-> "", failure |-> ""]

RouterIdle ==
    /\ pc05 = "post"
    /\ llm_request = NoInstance
    /\ client_posts = 0
    /\ client_error = ""
    /\ tr = TransformerIdle
    /\ llm_response = NoResponse

(***************************************************************************)
(* Manifests and image prompts of notebooks 02 and 04                      *)
(***************************************************************************)
DefaultVectorstoreImage == "dpoulopoulos/qna-vectorstore:v0.1.0"
DefaultPredictorImage == "dpoulopoulos/qna-predictor:v0.1.0"
DefaultTransformerImage == "dpoulopoulos/qna-transformer:v0.1.0"

\* what the user can type at an image prompt
TypedImages == {"", " ", "registry.local/custom:dev"}

\* input(...) that drops what was typed
input_or_default_ignoring(typed, default) == default

\* input(...) or "<default>": the empty string is the only falsy string
input_or_default(typed, default) == IF typed = "" THEN default ELSE typed

NoLlmFile == [exists |-> FALSE, name |-> "", predictor_image |-> "",
              transformer_image |-> ""]
\* <artifact_uri of a run>/<path>
NoUri == [run |-> 0, path |-> ""]
NoBikeFile == [exists |-> FALSE, name |-> "", storageUri |-> NoUri]
NoTyped == [vectorstore |-> "", predictor |-> "", transformer |-> ""]
NothingApplied ==
    [vectorstore |-> [path |-> "", file |-> NoFile],
     llm |-> [path |-> "", file |-> NoLlmFile],
     bike |-> [path |-> "", file |-> NoBikeFile]]

DeployIdle ==
    /\ stdin = NoTyped
    /\ pc04 = "input_images"
    /\ PREDICTOR_IMAGE = ""
    /\ TRANSFORMER_IMAGE = ""
    /\ llm_manifest_file = NoLlmFile
    /\ bike_manifest_file = NoBikeFile
    /\ applied = NothingApplied

(***************************************************************************)
(* The bike-sharing notebook: grid search and experiment tracking          *)
(***************************************************************************)
MaxValues == 2
MaxRuns == 4

\* the values a hyperparameter is tried with, and the scores a model can get
ParamValues == 1..MaxValues
Scores == {1, 2}

\* the sequences without repetition over S
RECURSIVE ListsOver(_)
ListsOver(S) ==
    {<<>>} \cup UNION {{<<x>> \o l : l \in ListsOver(S \ {x})} : x \in S}

\* a value of the parameters dict: a list of values or one value
ListValue(items) == [list |-> TRUE, scalar |-> 0, items |-> items]
ScalarValue(v) == [list |-> FALSE, scalar |-> v, items |-> <<>>]
ParamSettings ==
    {ListValue(l) : l \in ListsOver(ParamValues)} \cup {ScalarValue(v) : v \in ParamValues}

NoCombination == [learning_rate |-> 0, max_depth |-> 0]

\* parameters[key] if isinstance(parameters[key], list) else [parameters[key]]
as_list(value) == IF value.list THEN value.items ELSE <<value.scalar>>

\* params_keys and params_values, in the order of the dict
params_keys == <<"learning_rate", "max_depth">>
params_values(params) == <<as_list(params.learning_rate), as_list(params.max_depth)>>

RECURSIVE prepend_each(_, _)
prepend_each(values, rest) ==
    IF values = <<>> THEN <<>>
    ELSE [j \in 1..Len(rest) |-> <<Head(values)>> \o rest[j]]
            \o prepend_each(Tail(values), rest)

\* zip(*lists) in the place of the product: the i-th values together
product_zipped(lists) ==
    [j \in 1..(IF Len(lists[1]) < Len(lists[2]) THEN Len(lists[1]) ELSE Len(lists[2]))
        |-> <<lists[1][j], lists[2][j]>>]

\* itertools.product(*lists): every choice of one value from each list, the
\* last list varying fastest
RECURSIVE product(_)
product(lists) ==
    IF lists = <<>> THEN << <<>> >>
    ELSE prepend_each(Head(lists), product(Tail(lists)))

\* dict(zip(params_keys, combination))
dict_zip(keys, combination) ==
    [learning_rate |-> combination[1], max_depth |-> combination[2]]

generate_runs_parameters(params) ==
    LET combinations == product(params_values(params))
    IN  [j \in 1..Len(combinations) |-> dict_zip(params_keys, combinations[j])]

\* a run as the tracking server holds it; RMSLE_CV is 0 while not logged
NewRun(name) ==
    [name |-> name, status |-> "RUNNING", params |-> NoCombination, RMSLE_CV |-> 0,
     model |-> NoCombination, artifacts |-> {}]

\* mlflow.end_run() on the run at position a
end_run(rs, a) == [rs EXCEPT ![a].status = "FINISHED"]

\* log_mlflow_run(model, signature) on the active run: the tracked
\* parameters, the metrics, the model, and the files of model_artifacts
log_mlflow_run(run, m, cv, dir) ==
    [run EXCEPT !.params = m, !.RMSLE_CV = cv, !.model = m, !.artifacts = dir]

\* the position of the run search_runs puts last under RMSLE_CV ASC
search_runs_desc(rs) ==
    LET scored == {j \in 1..Len(rs) : rs[j].RMSLE_CV # 0}
        pool == IF scored = {} THEN 1..Len(rs) ELSE scored
    IN  IF rs = <<>> THEN 0
        ELSE CHOOSE j \in pool :
                \A h \in pool : rs[j].RMSLE_CV > rs[h].RMSLE_CV
                                    \/ (rs[j].RMSLE_CV = rs[h].RMSLE_CV /\ j >= h)

\* mlflow.search_runs(order_by=["metrics.RMSLE_CV ASC"], max_results=1): the
\* position of the run it returns, 0 when it returns none.  Runs without
\* the metric sort last; equal metrics sort by start time, newest first.
search_runs(rs) ==
    LET scored == {j \in 1..Len(rs) : rs[j].RMSLE_CV # 0}
        pool == IF scored = {} THEN 1..Len(rs) ELSE scored
    IN  IF rs = <<>> THEN 0
        ELSE CHOOSE j \in pool :
                \A h \in pool : rs[j].RMSLE_CV < rs[h].RMSLE_CV
                                    \/ (rs[j].RMSLE_CV = rs[h].RMSLE_CV /\ j >= h)

NoError == [raised |-> FALSE, class |-> "", message |-> ""]
NoCalls == [get_run |-> 0, load_model |-> 0]

\* the notebook after its setup cell, which empties model_artifacts
TrainIdle ==
    /\ parameters = [learning_rate |-> ScalarValue(1), max_depth |-> ScalarValue(1)]
    /\ runs_parameters = <<>>
    /\ loop_i = 0
    /\ runs = <<>>
    /\ active = 0
    /\ started = <<>>
    /\ model = NoCombination
    /\ score_cv = 0
    /\ model_artifacts = {}
    /\ best_run = 0
    /\ best_model_uri = NoUri
    /\ best_model = NoCombination
    /\ bike_error = NoError
    /\ calls = NoCalls

(***************************************************************************)
(* Notebook 01, loading the documents                                      *)
(***************************************************************************)
MaxDepth == 2

\* a file under source_dir: the number of subdirectories between source_dir
\* and the file, its name (none starts with a dot) and its extension
Files == [depth : 0..MaxDepth, stem : {"a", "b"}, ext : {"txt", "md"}]

\* fnmatch of a directory entry's name against "*.txt"
matches_txt(f) == f.ext = "txt"

\* glob.glob(os.path.join(source_dir, "*.txt")): the pattern has no **, so
\* only the entries of source_dir itself are listed
glob(dir) == {f \in dir : f.depth = 0 /\ matches_txt(f)}

\* load_docs(source_dir): one document from each file glob names
load_docs(dir) == glob(dir)

LoadIdle ==
    /\ pcLoad = "load_docs"
    /\ source_dir = {}
    /\ loaded = {}

LaterIdle ==
    /\ LoadIdle
    /\ DeployIdle
    /\ TrainIdle

(***************************************************************************)
(* Notebook 01, the chunking cell                                          *)
(***************************************************************************)
DocLists ==
    UNION {[1..n -> StringsUpTo(MaxDocLen)] : n \in 0..MaxDocs}

AsDocuments(contents) ==
    [i \in 1..Len(contents) |-> [page_content |-> contents[i], source |-> i]]

InitChunk ==
    /\ pc01 = "process_docs"
    /\ \E contents \in DocLists : docs = AsDocuments(contents)
    /\ chunk_size \in 1..MaxChunkSize
    /\ chunk_overlap = 0
    /\ texts = <<>>
    /\ StoreIdle
    /\ embed_fn = [t \in {replace_newlines(u) : u \in Texts} |-> 0]
    /\ Nb02Idle
    /\ BikeIdle
    /\ RouterIdle
    /\ LaterIdle

ProcessDocs ==
    /\ pc01 = "process_docs"
    /\ texts' = process_docs(docs, chunk_size, chunk_overlap)
    /\ pc01' = "embeddings"
    /\ UNCHANGED <<chunkVars, storeVars, nb02Vars, serviceVars, otherVars>>

NextChunk == ProcessDocs

SpecChunk == InitChunk /\ [][NextChunk]_vars

(***************************************************************************)
(* Properties of chunking (SpecChunk)                                      *)
(***************************************************************************)
Chunked == pc01 = "embeddings"

RECURSIVE ChunksOf(_, _)
ChunksOf(chunks, source) ==
    IF chunks = <<>> THEN <<>>
    ELSE (IF Head(chunks).source = source THEN <<Head(chunks).page_content>> ELSE <<>>)
         \o ChunksOf(Tail(chunks), source)

\* the chunks, in the order given, occupy disjoint stretches of content at
\* or after position from, each stretch spelling its chunk
RECURSIVE Placeable(_, _, _)
Placeable(chunks, content, from) ==
    \/ chunks = <<>>
    \/ \E p \in from..Len(content) :
          /\ Matches(content, Head(chunks), p)
          /\ Placeable(Tail(chunks), content, p + Len(Head(chunks)))

\* C1: with chunk_overlap = 0 and chunk_size >= 1, no chunk returned by
\* process_docs is longer than chunk_size.
C1_ChunkLengthBounded ==
    (Chunked /\ chunk_overlap = 0 /\ chunk_size >= 1) =>
        \A i \in 1..Len(texts) : Len(texts[i].page_content) <= chunk_size

\* a document longer than chunk_size was split and a chunk is exactly as
\* long as allowed
C1_Witness ==
    /\ Chunked /\ chunk_overlap = 0
    /\ \E d \in 1..Len(docs) : Len(docs[d].page_content) > chunk_size
    /\ Len(texts) >= 2
    /\ \E i \in 1..Len(texts) : Len(texts[i].page_content) = chunk_size

\* C6: with chunk_overlap = 0 the chunks of one document are contiguous
\* substrings of it, come in document order and share no character
\* position; chunks of an earlier document come before those of a later one.
C6_ChunksContiguousDisjoint ==
    (Chunked /\ chunk_overlap = 0) =>
        /\ \A d \in 1..Len(docs) :
              Placeable(ChunksOf(texts, docs[d].source), docs[d].page_content, 1)
        /\ \A i, j \in 1..Len(texts) : i < j => texts[i].source <= texts[j].source
        /\ \A i \in 1..Len(texts) : \E d \in 1..Len(docs) : texts[i].source = docs[d].source

\* a document cut into several chunks with whitespace stripped between them
C6_Witness ==
    /\ Chunked /\ chunk_overlap = 0
    /\ \E d \in 1..Len(docs) :
          LET cs == ChunksOf(texts, docs[d].source)
          IN  /\ Len(cs) >= 2
              /\ Len(join(<<>>, cs)) < Len(docs[d].page_content)

(***************************************************************************)
(* Notebook 01, embedding, storing and querying                            *)
(***************************************************************************)
LoadEmbeddings ==
    /\ pc01 = "embeddings"
    /\ embeddings' = HuggingFaceEmbeddings(EmbeddingsModel)
    /\ pc01' = "from_documents"
    /\ UNCHANGED <<texts, chunkVars, embed_fn, db_index, db_embedding, db_dir, query,
                   matches, nb02Vars, serviceVars, otherVars>>

FromDocuments ==
    /\ pc01 = "from_documents"
    /\ db_index' = from_documents(db_index, texts, embeddings)
    /\ db_embedding' = embeddings
    /\ pc01' = "persist"
    /\ UNCHANGED <<texts, chunkVars, embed_fn, embeddings, db_dir, query, matches,
                   nb02Vars, serviceVars, otherVars>>

Persist ==
    /\ pc01 = "persist"
    /\ db_dir' = Directory(db_index)
    /\ pc01' = "similarity_search"
    /\ UNCHANGED <<texts, chunkVars, embed_fn, embeddings, db_index, db_embedding,
                   query, matches, nb02Vars, serviceVars, otherVars>>

\* the query cell run before db.persist()
SimilaritySearchBeforePersist ==
    /\ pc01 \in {"persist", "similarity_search"}
    /\ \E text \in Texts, k \in 1..MaxK :
          /\ query' = [text |-> text, k |-> k,
                       embedding |-> embed_query(db_embedding, text)]
          /\ matches' \in similarity_search(db_index, db_embedding, text, k)
    /\ pc01' = IF pc01 = "persist" THEN "persist" ELSE "done"
    /\ UNCHANGED <<texts, chunkVars, embed_fn, embeddings, db_index, db_embedding,
                   db_dir, nb02Vars, serviceVars, otherVars>>

\* a query that takes the entries it returns out of the collection
SimilaritySearchConsuming ==
    /\ pc01 = "similarity_search"
    /\ \E text \in Texts, k \in 1..MaxK :
          /\ query' = [text |-> text, k |-> k,
                       embedding |-> embed_query(db_embedding, text)]
          /\ matches' \in similarity_search(db_index, db_embedding, text, k)
    /\ db_index' = SelectSeq(db_index,
                             LAMBDA e : \A i \in 1..Len(matches') : matches'[i].id # e.id)
    /\ pc01' = "done"
    /\ UNCHANGED <<texts, chunkVars, embed_fn, embeddings, db_embedding,
                   db_dir, nb02Vars, serviceVars, otherVars>>

SimilaritySearch ==
    /\ pc01 = "similarity_search"
    /\ \E text \in Texts, k \in 1..MaxK :
          /\ query' = [text |-> text, k |-> k,
                       embedding |-> embed_query(db_embedding, text)]
          /\ matches' \in similarity_search(db_index, db_embedding, text, k)
    /\ pc01' = "done"
    /\ UNCHANGED <<texts, chunkVars, embed_fn, embeddings, db_index, db_embedding,
                   db_dir, nb02Vars, serviceVars, otherVars>>

\* the retrieval test as the notebook has it: the query without a count
SimilaritySearchDefault ==
    /\ pc01 = "similarity_search"
    /\ \E text \in Texts :
          /\ query' = [text |-> text, k |-> DEFAULT_K,
                       embedding |-> embed_query(db_embedding, text)]
          /\ matches' \in similarity_search_default(db_index, db_embedding, text)
    /\ pc01' = "done"
    /\ UNCHANGED <<texts, chunkVars, embed_fn, embeddings, db_index, db_embedding,
                   db_dir, nb02Vars, serviceVars, otherVars>>

(***************************************************************************)
(* Notebook 02: log the store, write and apply the manifest                *)
(***************************************************************************)
DbArtifactUri == "s3://mlflow/artifacts/db"

GetOrCreateExperiment ==
    /\ pc02 = "set_experiment"
    /\ \E outcome \in MlflowOutcomes :
          /\ mlflow_call' = outcome
          /\ result02' = get_or_create_experiment("question-answering", outcome)
    /\ pc02' = IF result02'.raised THEN "error" ELSE "log_artifact"
    /\ UNCHANGED <<pc01, texts, chunkVars, storeVars, artifact_db, uri, predictor_image,
                   manifest_file, served_index, serviceVars, otherVars>>

\* mlflow.log_artifact copies the directory as it is now; a missing
\* directory ends the cell with an error
LogArtifact ==
    /\ pc02 = "log_artifact"
    /\ IF ~db_dir.exists
       THEN pc02' = "error" /\ UNCHANGED artifact_db
       ELSE pc02' = "get_artifact_uri" /\ artifact_db' = db_dir
    /\ UNCHANGED <<pc01, texts, chunkVars, storeVars, mlflow_call, result02, uri,
                   predictor_image, manifest_file, served_index, serviceVars, otherVars>>

GetArtifactUri ==
    /\ pc02 = "get_artifact_uri"
    /\ uri' = DbArtifactUri
    /\ pc02' = "input_image"
    /\ UNCHANGED <<pc01, texts, chunkVars, storeVars, mlflow_call, result02, artifact_db,
                   predictor_image, manifest_file, served_index, serviceVars, otherVars>>

InputPredictorImage ==
    /\ pc02 = "input_image"
    /\ \E typed \in TypedImages :
          /\ stdin' = [stdin EXCEPT !.vectorstore = typed]
          /\ predictor_image' = input_or_default(typed, DefaultVectorstoreImage)
    /\ pc02' = "write_manifest"
    /\ UNCHANGED <<pc01, texts, chunkVars, storeVars, mlflow_call, result02, artifact_db,
                   uri, manifest_file, served_index, serviceVars, bikeVars, routerVars,
                   loadVars, trainVars, pc04, PREDICTOR_IMAGE, TRANSFORMER_IMAGE,
                   llm_manifest_file, bike_manifest_file, applied>>

\* the manifest formatted with the arguments one slot off
WriteManifestShifted ==
    /\ pc02 = "write_manifest"
    /\ manifest_file' = [exists |-> TRUE, name |-> "vectorstore",
                         image |-> predictor_image, persist_uri |-> predictor_image]
    /\ pc02' = "kubectl_apply"
    /\ UNCHANGED <<pc01, texts, chunkVars, storeVars, mlflow_call, result02, artifact_db,
                   uri, predictor_image, served_index, serviceVars, otherVars>>

WriteManifest ==
    /\ pc02 = "write_manifest"
    /\ manifest_file' = [exists |-> TRUE, name |-> "vectorstore",
                         image |-> predictor_image, persist_uri |-> uri]
    /\ pc02' = "kubectl_apply"
    /\ UNCHANGED <<pc01, texts, chunkVars, storeVars, mlflow_call, result02, artifact_db,
                   uri, predictor_image, served_index, serviceVars, otherVars>>

\* kubectl apply -f vectorstore-isvc.yaml: the service starts from the
\* artifact its --persist-uri names
KubectlApply ==
    /\ pc02 = "kubectl_apply"
    /\ applied' = [applied EXCEPT !.vectorstore =
                      [path |-> "vectorstore-isvc.yaml", file |-> manifest_file]]
    /\ served_index' = [up |-> TRUE,
                         entries |-> IF manifest_file.persist_uri = DbArtifactUri
                                     THEN artifact_db.entries ELSE <<>>]
    /\ pc02' = "done"
    /\ UNCHANGED <<pc01, texts, chunkVars, storeVars, mlflow_call, result02, artifact_db,
                   uri, predictor_image, manifest_file, serviceVars, bikeVars, routerVars,
                   loadVars, trainVars, stdin, pc04, PREDICTOR_IMAGE, TRANSFORMER_IMAGE,
                   llm_manifest_file, bike_manifest_file>>

(***************************************************************************)
(* Notebook 03: a predict request to the vectorstore service               *)
(***************************************************************************)
\* the service's answer to {"input": text, "num_docs": k}
VectorstorePredict ==
    /\ pc03 = "post"
    /\ served_index.up
    /\ \E text \in Texts, k \in 1..MaxK :
          /\ vs_request' = [input |-> text, num_docs |-> k]
          /\ vs_response' \in
                similarity_search(served_index.entries,
                                  HuggingFaceEmbeddings(EmbeddingsModel), text, k)
    /\ pc03' = "done"
    /\ UNCHANGED <<pc01, texts, chunkVars, storeVars, nb02Vars, otherVars>>

ChunkLists ==
    UNION {[1..n -> Texts] : n \in 1..MaxChunks}

AsChunks(contents) ==
    [i \in 1..Len(contents) |-> [page_content |-> contents[i], source |-> 1]]

Init ==
    /\ pc01 = "embeddings"
    /\ docs = <<>>
    /\ chunk_size = 1
    /\ chunk_overlap = 0
    /\ \E contents \in ChunkLists : texts = AsChunks(contents)
    /\ StoreIdle
    /\ Nb02ExperimentSet
    /\ BikeIdle
    /\ RouterIdle
    /\ LaterIdle

Next ==
    \/ LoadEmbeddings
    \/ FromDocuments
    \/ Persist
    \/ SimilaritySearch
    \/ SimilaritySearchDefault
    \/ LogArtifact
    \/ GetArtifactUri
    \/ InputPredictorImage
    \/ WriteManifest
    \/ KubectlApply
    \/ VectorstorePredict

Spec == Init /\ [][Next]_vars

(***************************************************************************)
(* The bike-sharing notebook: setting the experiment                       *)
(***************************************************************************)
SetExperiment ==
    /\ pcBike = "set_experiment"
    /\ \E outcome \in MlflowOutcomes :
          /\ bike_call' = outcome
          /\ bike_result' = set_experiment("bike-sharing-exp", outcome)
    /\ pcBike' = IF bike_result'.raised THEN "error" ELSE "load_dataset"
    /\ UNCHANGED <<pc01, texts, chunkVars, storeVars, nb02Vars, serviceVars, routerVars,
                   laterVars>>

InitExp ==
    /\ pc01 = "process_docs"
    /\ docs = <<>>
    /\ chunk_size = 1
    /\ chunk_overlap = 0
    /\ texts = <<>>
    /\ StoreIdle
    /\ embed_fn = [t \in {replace_newlines(u) : u \in Texts} |-> 0]
    /\ Nb02Idle
    /\ BikeIdle
    /\ RouterIdle
    /\ LaterIdle

NextExp == GetOrCreateExperiment \/ SetExperiment

SpecExp == InitExp /\ [][NextExp]_vars

(***************************************************************************)
(* Notebook 05 and the transformer                                         *)
(***************************************************************************)
routerRest == <<pc01, texts, chunkVars, storeVars, nb02Vars, serviceVars, bikeVars,
                laterVars>>

\* ClientPost wrapped in a loop that posts again after an error response
ClientPostRetry ==
    /\ pc05 = "post" \/ (pc05 = "done" /\ llm_response.status = "error")
    /\ \E input \in Questions, num_docs \in 1..MaxNumDocs :
          llm_request' = [system |-> System, instruction |-> Instruction,
                          input |-> input, num_docs |-> num_docs]
    /\ client_posts' = client_posts + 1
    /\ pc05' = "sent"
    /\ tr' = TransformerIdle
    /\ llm_response' = NoResponse
    /\ UNCHANGED <<client_error, routerRest>>

\* requests.post succeeds in reaching the service
ClientPost ==
    /\ pc05 = "post"
    /\ \E input \in Questions, num_docs \in 1..MaxNumDocs :
          llm_request' = [system |-> System, instruction |-> Instruction,
                          input |-> input, num_docs |-> num_docs]
    /\ client_posts' = client_posts + 1
    /\ pc05' = "sent"
    /\ UNCHANGED <<client_error, tr, llm_response, routerRest>>

\* requests.post raises: nothing in the cell catches it
ClientPostRaises ==
    /\ pc05 = "post"
    /\ \E f \in Failures : client_error' = f
    /\ client_posts' = client_posts + 1
    /\ pc05' = "raised"
    /\ UNCHANGED <<llm_request, tr, llm_response, routerRest>>

ExtractQuery ==
    /\ pc05 = "sent"
    /\ tr.pc = "idle"
    /\ tr' = [tr EXCEPT !.pc = "retrieve",
                        !.steps = Append(@, "extract"),
                        !.query = llm_request.input]
    /\ UNCHANGED <<pc05, llm_request, client_posts, client_error, llm_response, routerRest>>

PostVectorstore ==
    /\ tr.pc = "retrieve"
    /\ tr' = [tr EXCEPT !.pc = "await_context",
                        !.steps = Append(@, "post_vectorstore"),
                        !.posted = [input |-> tr.query, num_docs |-> llm_request.num_docs],
                        !.vs_calls = @ + 1]
    /\ UNCHANGED <<pc05, llm_request, client_posts, client_error, llm_response, routerRest>>

ReceiveContext ==
    /\ tr.pc = "await_context"
    /\ \E context \in Contexts :
          tr' = [tr EXCEPT !.pc = "combine",
                           !.steps = Append(@, "receive_context"),
                           !.context = context]
    /\ UNCHANGED <<pc05, llm_request, client_posts, client_error, llm_response, routerRest>>

VectorstoreFails ==
    /\ tr.pc = "await_context"
    /\ \E f \in Failures : tr' = [tr EXCEPT !.pc = "failed", !.failure = f]
    /\ UNCHANGED <<pc05, llm_request, client_posts, client_error, llm_response, routerRest>>

CombinePrompt ==
    /\ tr.pc = "combine"
    /\ tr' = [tr EXCEPT !.pc = "forward",
                        !.steps = Append(@, "combine"),
                        !.prompt = [system |-> llm_request.system,
                                    instruction |-> llm_request.instruction,
                                    context |-> tr.context,
                                    question |-> tr.query]]
    /\ UNCHANGED <<pc05, llm_request, client_posts, client_error, llm_response, routerRest>>

ForwardToPredictor ==
    /\ tr.pc = "forward"
    /\ tr' = [tr EXCEPT !.pc = "await_predictor",
                        !.steps = Append(@, "forward"),
                        !.forwarded = tr.prompt,
                        !.llm_calls = @ + 1]
    /\ UNCHANGED <<pc05, llm_request, client_posts, client_error, llm_response, routerRest>>

PredictorResponds ==
    /\ tr.pc = "await_predictor"
    /\ \E g \in Generations :
          tr' = [tr EXCEPT !.pc = "respond",
                           !.steps = Append(@, "predictor_response"),
                           !.generation = g]
    /\ UNCHANGED <<pc05, llm_request, client_posts, client_error, llm_response, routerRest>>

PredictorFails ==
    /\ tr.pc = "await_predictor"
    /\ \E f \in Failures : tr' = [tr EXCEPT !.pc = "failed", !.failure = f]
    /\ UNCHANGED <<pc05, llm_request, client_posts, client_error, llm_response, routerRest>>

\* ReturnResponse without waiting for the predictor
ReturnResponseEarly ==
    /\ tr.pc \in {"await_predictor", "respond"}
    /\ tr' = [tr EXCEPT !.pc = "done", !.steps = Append(@, "return")]
    /\ llm_response' = [status |-> "ok", body |-> tr.generation]
    /\ pc05' = "done"
    /\ UNCHANGED <<llm_request, client_posts, client_error, routerRest>>

ReturnResponse ==
    /\ tr.pc = "respond"
    /\ tr' = [tr EXCEPT !.pc = "done", !.steps = Append(@, "return")]
    /\ llm_response' = [status |-> "ok", body |-> tr.generation]
    /\ pc05' = "done"
    /\ UNCHANGED <<llm_request, client_posts, client_error, routerRest>>

ReturnFailure ==
    /\ tr.pc = "failed"
    /\ tr' = [tr EXCEPT !.pc = "done"]
    /\ llm_response' = [status |-> "error", body |-> tr.failure]
    /\ pc05' = "done"
    /\ UNCHANGED <<llm_request, client_posts, client_error, routerRest>>

InitRouter == InitExp

NextRouter ==
    \/ ClientPost
    \/ ClientPostRaises
    \/ ExtractQuery
    \/ PostVectorstore
    \/ ReceiveContext
    \/ VectorstoreFails
    \/ CombinePrompt
    \/ ForwardToPredictor
    \/ PredictorResponds
    \/ PredictorFails
    \/ ReturnResponse
    \/ ReturnFailure

SpecRouter == InitRouter /\ [][NextRouter]_vars

(***************************************************************************)
(* Notebook 04: the LLM inference service                                  *)
(***************************************************************************)
deployRest == <<pc01, texts, chunkVars, storeVars, nb02Vars, serviceVars, bikeVars,
                routerVars, loadVars, trainVars>>

InputLlmImages ==
    /\ pc04 = "input_images"
    /\ \E typed_predictor \in TypedImages, typed_transformer \in TypedImages :
          /\ stdin' = [stdin EXCEPT !.predictor = typed_predictor,
                                    !.transformer = typed_transformer]
          /\ PREDICTOR_IMAGE' = input_or_default(typed_predictor, DefaultPredictorImage)
          /\ TRANSFORMER_IMAGE' =
                input_or_default(typed_transformer, DefaultTransformerImage)
    /\ pc04' = "write_manifest"
    /\ UNCHANGED <<llm_manifest_file, bike_manifest_file, applied, deployRest>>

\* isvc = """...""".format(PREDICTOR_IMAGE, TRANSFORMER_IMAGE), written to
\* llm-isvc.yaml and closed
WriteLlmManifest ==
    /\ pc04 = "write_manifest"
    /\ llm_manifest_file' = [exists |-> TRUE, name |-> "llm",
                             predictor_image |-> PREDICTOR_IMAGE,
                             transformer_image |-> TRANSFORMER_IMAGE]
    /\ pc04' = "kubectl_apply"
    /\ UNCHANGED <<stdin, PREDICTOR_IMAGE, TRANSFORMER_IMAGE, bike_manifest_file,
                   applied, deployRest>>

\* the apply cell run before the cell that writes the manifest
KubectlApplyLlmBeforeWrite ==
    /\ pc04 \in {"write_manifest", "kubectl_apply"}
    /\ applied' = [applied EXCEPT !.llm =
                      [path |-> "llm-isvc.yaml", file |-> llm_manifest_file]]
    /\ pc04' = IF pc04 = "write_manifest" THEN "write_manifest" ELSE "done"
    /\ UNCHANGED <<stdin, PREDICTOR_IMAGE, TRANSFORMER_IMAGE, llm_manifest_file,
                   bike_manifest_file, deployRest>>

\* subprocess.run(["kubectl", "apply", "-f", "llm-isvc.yaml"])
KubectlApplyLlm ==
    /\ pc04 = "kubectl_apply"
    /\ applied' = [applied EXCEPT !.llm =
                      [path |-> "llm-isvc.yaml", file |-> llm_manifest_file]]
    /\ pc04' = "done"
    /\ UNCHANGED <<stdin, PREDICTOR_IMAGE, TRANSFORMER_IMAGE, llm_manifest_file,
                   bike_manifest_file, deployRest>>

(***************************************************************************)
(* The bike-sharing notebook: training, best model, deployment             *)
(***************************************************************************)
experiment_name == "bike-sharing-exp"

trainRest == <<pc01, texts, chunkVars, storeVars, nb02Vars, serviceVars, bike_call,
               bike_result, routerVars, loadVars>>

\* the cells from the dataset to runs_parameters; the data they prepare is
\* not part of the state
GenerateRunsParameters ==
    /\ pcBike = "load_dataset"
    /\ runs_parameters' = generate_runs_parameters(parameters)
    /\ loop_i' = 0
    /\ pcBike' = IF runs_parameters' = <<>> THEN "best_model" ELSE "loop_head"
    /\ UNCHANGED <<parameters, runs, active, started, model, score_cv,
                   model_artifacts, best_run, best_model_uri, best_model, bike_error,
                   calls, deployVars, trainRest>>

\* the loop without its first two lines
StopActiveRunSkipped ==
    /\ pcBike = "loop_head"
    /\ pcBike' = "start_run"
    /\ UNCHANGED <<trainVars, deployVars, trainRest>>

\* if mlflow.active_run(): mlflow.end_run()
StopActiveRun ==
    /\ pcBike = "loop_head"
    /\ IF active # 0
       THEN runs' = end_run(runs, active) /\ active' = 0
       ELSE UNCHANGED <<runs, active>>
    /\ pcBike' = "start_run"
    /\ UNCHANGED <<parameters, runs_parameters, loop_i, started, model, score_cv,
                   model_artifacts, best_run, best_model_uri, best_model, bike_error,
                   calls, deployVars, trainRest>>

\* mlflow.start_run(run_name=f"Run {i}"), which raises when a run is active
StartRun ==
    /\ pcBike = "start_run"
    /\ IF active # 0
       THEN /\ bike_error' = [raised |-> TRUE, class |-> "Exception",
                              message |-> "Run is already active"]
            /\ pcBike' = "error"
            /\ UNCHANGED <<runs, active, started>>
       ELSE /\ runs' = Append(runs, NewRun(loop_i))
            /\ active' = Len(runs) + 1
            /\ started' = Append(started, Len(runs) + 1)
            /\ pcBike' = "fit"
            /\ UNCHANGED bike_error
    /\ UNCHANGED <<parameters, runs_parameters, loop_i, model, score_cv,
                   model_artifacts, best_run, best_model_uri, best_model, calls,
                   deployVars, trainRest>>

\* model_class(**run_parameters), fit, and the scores
FitAndScore ==
    /\ pcBike = "fit"
    /\ model' = runs_parameters[loop_i + 1]
    /\ score_cv' \in Scores
    /\ pcBike' = "log_run"
    /\ UNCHANGED <<parameters, runs_parameters, loop_i, runs, active, started,
                   model_artifacts, best_run, best_model_uri, best_model, bike_error,
                   calls, deployVars, trainRest>>

\* fit or an evaluation raises: the cell ends inside the iteration
FitRaises ==
    /\ pcBike = "fit"
    /\ bike_error' = [raised |-> TRUE, class |-> "ValueError", message |-> "fit"]
    /\ pcBike' = "error"
    /\ UNCHANGED <<parameters, runs_parameters, loop_i, runs, active, started, model,
                   score_cv, model_artifacts, best_run, best_model_uri, best_model,
                   calls, deployVars, trainRest>>

LogMlflowRun ==
    /\ pcBike = "log_run"
    /\ runs' = [runs EXCEPT ![active] =
                   log_mlflow_run(@, model, score_cv, model_artifacts)]
    /\ pcBike' = "end_run"
    /\ UNCHANGED <<parameters, runs_parameters, loop_i, active, started, model,
                   score_cv, model_artifacts, best_run, best_model_uri, best_model,
                   bike_error, calls, deployVars, trainRest>>

\* mlflow.end_run() and the step to the next combination
EndRun ==
    /\ pcBike = "end_run"
    /\ runs' = end_run(runs, active)
    /\ active' = 0
    /\ loop_i' = loop_i + 1
    /\ pcBike' = IF loop_i' < Len(runs_parameters) THEN "loop_head" ELSE "best_model"
    /\ UNCHANGED <<parameters, runs_parameters, started, model, score_cv,
                   model_artifacts, best_run, best_model_uri, best_model, bike_error,
                   calls, deployVars, trainRest>>

\* the best-model cell without its check for an empty result
BestModelUnchecked ==
    /\ pcBike = "best_model"
    /\ LET found == search_runs(runs)
       IN  /\ calls' = [calls EXCEPT !.get_run = @ + 1]
           /\ IF found = 0 \/ runs[found].model = NoCombination
              THEN /\ bike_error' = [raised |-> TRUE, class |-> "KeyError", message |-> "0"]
                   /\ pcBike' = "error"
                   /\ UNCHANGED <<best_run, best_model_uri, best_model>>
              ELSE /\ best_run' = found
                   /\ best_model_uri' = [run |-> found, path |-> "model"]
                   /\ best_model' = runs[found].model
                   /\ pcBike' = "feature_importance"
                   /\ UNCHANGED bike_error
    /\ UNCHANGED <<parameters, runs_parameters, loop_i, runs, active, started, model,
                   score_cv, model_artifacts, deployVars, trainRest>>

\* the best-model cell
BestModel ==
    /\ pcBike = "best_model"
    /\ LET found == search_runs(runs)
       IN  IF found = 0
           THEN /\ bike_error' =
                      [raised |-> TRUE, class |-> "Exception",
                       message |-> "Found no runs for experiment '"
                                      \o experiment_name \o "'"]
                /\ pcBike' = "error"
                /\ UNCHANGED <<best_run, best_model_uri, best_model, calls>>
           ELSE /\ best_run' = found
                /\ best_model_uri' = [run |-> found, path |-> "model"]
                /\ calls' = [get_run |-> calls.get_run + 1,
                             load_model |-> calls.load_model + 1]
                /\ IF runs[found].model = NoCombination
                   THEN /\ bike_error' = [raised |-> TRUE, class |-> "MlflowException",
                                          message |-> "no model at the uri"]
                        /\ pcBike' = "error"
                        /\ UNCHANGED best_model
                   ELSE /\ best_model' = runs[found].model
                        /\ pcBike' = "feature_importance"
                        /\ UNCHANGED bike_error
    /\ UNCHANGED <<parameters, runs_parameters, loop_i, runs, active, started, model,
                   score_cv, model_artifacts, deployVars, trainRest>>

\* model_feature_importance(best_model)
ModelFeatureImportance ==
    /\ pcBike = "feature_importance"
    /\ model_artifacts' = model_artifacts \cup {"feature_importance.png"}
    /\ pcBike' = "permutation_importance"
    /\ UNCHANGED <<parameters, runs_parameters, loop_i, runs, active, started, model,
                   score_cv, best_run, best_model_uri, best_model, bike_error, calls,
                   deployVars, trainRest>>

\* model_permutation_importance(best_model)
ModelPermutationImportance ==
    /\ pcBike = "permutation_importance"
    /\ model_artifacts' = model_artifacts \cup {"permutation_importance.png"}
    /\ pcBike' = "write_manifest"
    /\ UNCHANGED <<parameters, runs_parameters, loop_i, runs, active, started, model,
                   score_cv, best_run, best_model_uri, best_model, bike_error, calls,
                   deployVars, trainRest>>

\* the manifest with storageUri "{best_model_uri}", written to
\* manifests/isvc.yaml and closed
WriteBikeManifest ==
    /\ pcBike = "write_manifest"
    /\ bike_manifest_file' = [exists |-> TRUE, name |-> "bike-sharing",
                              storageUri |-> best_model_uri]
    /\ pcBike' = "kubectl_apply"
    /\ UNCHANGED <<parameters, runs_parameters, loop_i, runs, active, started, model,
                   score_cv, model_artifacts, best_run, best_model_uri, best_model,
                   bike_error, calls, stdin, pc04, PREDICTOR_IMAGE,
                   TRANSFORMER_IMAGE, llm_manifest_file, applied, trainRest>>

\* subprocess.run(["kubectl", "apply", "-f", "manifests/isvc.yaml"])
KubectlApplyBike ==
    /\ pcBike = "kubectl_apply"
    /\ applied' = [applied EXCEPT !.bike =
                      [path |-> "manifests/isvc.yaml", file |-> bike_manifest_file]]
    /\ pcBike' = "done"
    /\ UNCHANGED <<parameters, runs_parameters, loop_i, runs, active, started, model,
                   score_cv, model_artifacts, best_run, best_model_uri, best_model,
                   bike_error, calls, stdin, pc04, PREDICTOR_IMAGE,
                   TRANSFORMER_IMAGE, llm_manifest_file, bike_manifest_file,
                   trainRest>>

\* the experiment as earlier sessions left it: empty, one finished run, or
\* one run that an interrupted training loop left active
EarlierRuns ==
    {<<>>}
    \cup {<<[NewRun(0) EXCEPT !.status = "FINISHED", !.RMSLE_CV = cv,
                               !.params = [learning_rate |-> 1, max_depth |-> 1],
                               !.model = [learning_rate |-> 1, max_depth |-> 1]]>>
            : cv \in Scores}
    \cup {<<NewRun(0)>>}

BikeExperimentSet ==
    /\ pcBike = "load_dataset"
    /\ bike_call = Returned
    /\ bike_result = Returned

InitTrain ==
    /\ pc01 = "process_docs"
    /\ docs = <<>>
    /\ chunk_size = 1
    /\ chunk_overlap = 0
    /\ texts = <<>>
    /\ StoreIdle
    /\ embed_fn = [t \in {replace_newlines(u) : u \in Texts} |-> 0]
    /\ Nb02Idle
    /\ BikeExperimentSet
    /\ RouterIdle
    /\ LoadIdle
    /\ DeployIdle
    /\ parameters \in [learning_rate : ParamSettings, max_depth : ParamSettings]
    /\ Len(generate_runs_parameters(parameters)) <= MaxRuns
    /\ runs \in EarlierRuns
    /\ active = (IF runs # <<>> /\ runs[1].status = "RUNNING" THEN 1 ELSE 0)
    /\ runs_parameters = <<>>
    /\ loop_i = 0
    /\ started = <<>>
    /\ model = NoCombination
    /\ score_cv = 0
    /\ model_artifacts = {}
    /\ best_run = 0
    /\ best_model_uri = NoUri
    /\ best_model = NoCombination
    /\ bike_error = NoError
    /\ calls = NoCalls

NextTrain ==
    \/ GenerateRunsParameters
    \/ StopActiveRun
    \/ StartRun
    \/ FitAndScore
    \/ FitRaises
    \/ LogMlflowRun
    \/ EndRun
    \/ BestModel
    \/ ModelFeatureImportance
    \/ ModelPermutationImportance
    \/ WriteBikeManifest
    \/ KubectlApplyBike

SpecTrain == InitTrain /\ [][NextTrain]_vars

\* the values parameters gives a hyperparameter
ValuesOf(setting) ==
    IF setting.list THEN {setting.items[j] : j \in 1..Len(setting.items)}
    ELSE {setting.scalar}

\* the training loop has gone through every combination
LoopCompleted ==
    /\ pcBike \notin {"load_dataset", "loop_head", "start_run", "fit", "log_run", "end_run"}
    /\ loop_i = Len(runs_parameters)

C17_BestRunHasSmallestMetric ==
    best_run # 0 =>
        /\ \A j \in 1..Len(runs) :
              runs[j].RMSLE_CV # 0 =>
                 /\ runs[best_run].RMSLE_CV # 0
                 /\ runs[j].RMSLE_CV >= runs[best_run].RMSLE_CV
        /\ best_model_uri = [run |-> best_run, path |-> "model"]
        /\ pcBike # "error" => /\ best_model # NoCombination
                               /\ best_model = runs[best_run].model

\* the best run is picked among runs of different scores
C17_Witness ==
    /\ best_run # 0
    /\ best_model # NoCombination
    /\ \E j \in 1..Len(runs) : runs[j].RMSLE_CV > runs[best_run].RMSLE_CV

\* C18 as stated: at most one run is active at any time, start_run is never
\* called while a run is active (it would raise), and when the loop is
\* through it has started and ended exactly one run "Run i" for each
\* combination i and no run is active
C18_RunLifecycleAsStated ==
    /\ Cardinality({j \in 1..Len(runs) : runs[j].status = "RUNNING"}) <= 1
    /\ bike_error.message # "Run is already active"
    /\ LoopCompleted =>
          /\ active = 0
          /\ Len(started) = Len(runs_parameters)
          /\ \A j \in 1..Len(started) :
                /\ runs[started[j]].name = j - 1
                /\ runs[started[j]].status = "FINISHED"
          /\ \A j, h \in 1..Len(started) : j # h => started[j] # started[h]

\* C18, amended: as stated, except that no run is active after the loop
\* only when the loop had a combination to go through; with none, a run
\* that was active before the loop is still active after it
C18_RunLifecycle ==
    /\ Cardinality({j \in 1..Len(runs) : runs[j].status = "RUNNING"}) <= 1
    /\ bike_error.message # "Run is already active"
    /\ LoopCompleted =>
          /\ runs_parameters # <<>> => active = 0
          /\ runs_parameters = <<>> =>
                (active # 0 <=> (runs # <<>> /\ runs[1].status = "RUNNING"))
          /\ Len(started) = Len(runs_parameters)
          /\ \A j \in 1..Len(started) :
                /\ runs[started[j]].name = j - 1
                /\ runs[started[j]].status = "FINISHED"
          /\ \A j, h \in 1..Len(started) : j # h => started[j] # started[h]

\* the loop has run through two combinations after finding a run that an
\* earlier session left active
C18_Witness ==
    /\ LoopCompleted
    /\ Len(started) >= 2
    /\ Len(runs) > Len(started)
    /\ runs[1].RMSLE_CV = 0

\* C19: with no run in the experiment the best-model cell raises
\* Exception("Found no runs for experiment 'bike-sharing-exp'") without
\* calling get_run or load_model, and assigns none of best_run,
\* best_model_uri and best_model
C19_NoRunsRaises ==
    (LoopCompleted /\ pcBike # "best_model" /\ runs = <<>>) =>
        /\ pcBike = "error"
        /\ bike_error = [raised |-> TRUE, class |-> "Exception",
                         message |-> "Found no runs for experiment 'bike-sharing-exp'"]
        /\ calls = [get_run |-> 0, load_model |-> 0]
        /\ best_run = 0
        /\ best_model_uri = NoUri
        /\ best_model = NoCombination

\* the best-model cell has run on an experiment without runs
C19_Witness ==
    /\ LoopCompleted
    /\ pcBike = "error"
    /\ runs = <<>>
    /\ bike_error.raised

\* C20: the artifacts log_mlflow_run logs for a run hold the
\* feature-importance and the permutation-importance image
C20_ChartsLoggedWithRun ==
    \A j \in 1..Len(started) :
        runs[started[j]].RMSLE_CV # 0 =>
            {"feature_importance.png", "permutation_importance.png"}
                \subseteq runs[started[j]].artifacts

(***************************************************************************)
(* The deployments together (SpecDeploy): notebook 02 and notebook 04 from *)
(* their first cells, the bike-sharing notebook from its dataset cell      *)
(***************************************************************************)
\* notebook 01 has run up to db.persist(), or has not run at all
Nb01Persisted ==
    /\ pc01 = "similarity_search"
    /\ texts = AsChunks(<<<<"a">>>>)
    /\ embeddings = HuggingFaceEmbeddings(EmbeddingsModel)
    /\ db_embedding = embeddings
    /\ db_index = from_documents(<<>>, texts, embeddings)
    /\ db_dir = Directory(db_index)

Nb01NotRun ==
    /\ pc01 = "process_docs"
    /\ texts = <<>>
    /\ embeddings = NoEmbeddings
    /\ db_embedding = NoEmbeddings
    /\ db_index = <<>>
    /\ db_dir = NoDirectory

InitDeploy ==
    /\ docs = <<>>
    /\ chunk_size = 1
    /\ chunk_overlap = 0
    /\ embed_fn = [t \in {replace_newlines(u) : u \in Texts} |-> 0]
    /\ query = NoQuery
    /\ matches = <<>>
    /\ (Nb01Persisted \/ Nb01NotRun)
    /\ Nb02Idle
    /\ BikeExperimentSet
    /\ RouterIdle
    /\ LaterIdle

NextDeploy ==
    \/ GetOrCreateExperiment
    \/ LogArtifact
    \/ GetArtifactUri
    \/ InputPredictorImage
    \/ WriteManifest
    \/ KubectlApply
    \/ InputLlmImages
    \/ WriteLlmManifest
    \/ KubectlApplyLlm
    \/ GenerateRunsParameters
    \/ StopActiveRun
    \/ StartRun
    \/ FitAndScore
    \/ FitRaises
    \/ LogMlflowRun
    \/ EndRun
    \/ BestModel
    \/ ModelFeatureImportance
    \/ ModelPermutationImportance
    \/ WriteBikeManifest
    \/ KubectlApplyBike

SpecDeploy == InitDeploy /\ [][NextDeploy]_vars

\* C13: an empty answer at an image prompt selects the pre-built image, any
\* other answer is the image name written into the manifest
C13_ImageSelection ==
    /\ manifest_file.exists =>
          manifest_file.image =
             (IF stdin.vectorstore = "" THEN "dpoulopoulos/qna-vectorstore:v0.1.0"
                                        ELSE stdin.vectorstore)
    /\ llm_manifest_file.exists =>
          /\ llm_manifest_file.predictor_image =
                (IF stdin.predictor = "" THEN "dpoulopoulos/qna-predictor:v0.1.0"
                                         ELSE stdin.predictor)
          /\ llm_manifest_file.transformer_image =
                (IF stdin.transformer = "" THEN "dpoulopoulos/qna-transformer:v0.1.0"
                                           ELSE stdin.transformer)

\* the manifests of both notebooks are written, with an image left to its
\* default and images that were typed
C13_Witness ==
    /\ manifest_file.exists
    /\ llm_manifest_file.exists
    /\ stdin.vectorstore # ""
    /\ stdin.predictor = ""
    /\ stdin.transformer # ""

\* C14: each kubectl apply is given the path of the manifest its notebook
\* writes, and the file there is the descriptor, written in full, that the
\* cell before it built
C14_ManifestWrittenBeforeApply ==
    /\ applied.vectorstore.path # "" =>
          /\ applied.vectorstore.path = "vectorstore-isvc.yaml"
          /\ applied.vectorstore.file.exists
          /\ applied.vectorstore.file = manifest_file
          /\ applied.vectorstore.file.name = "vectorstore"
          /\ applied.vectorstore.file.image = predictor_image
          /\ applied.vectorstore.file.persist_uri = uri
    /\ applied.llm.path # "" =>
          /\ applied.llm.path = "llm-isvc.yaml"
          /\ applied.llm.file.exists
          /\ applied.llm.file = llm_manifest_file
          /\ applied.llm.file.name = "llm"
          /\ applied.llm.file.predictor_image = PREDICTOR_IMAGE
          /\ applied.llm.file.transformer_image = TRANSFORMER_IMAGE
    /\ applied.bike.path # "" =>
          /\ applied.bike.path = "manifests/isvc.yaml"
          /\ applied.bike.file.exists
          /\ applied.bike.file = bike_manifest_file
          /\ applied.bike.file.name = "bike-sharing"
          /\ applied.bike.file.storageUri = best_model_uri

\* the three manifests have been applied
C14_Witness ==
    /\ applied.vectorstore.path # ""
    /\ applied.llm.path # ""
    /\ applied.bike.path # ""

\* C15: the experiment is set before the db directory is logged, the
\* directory is logged before its URI is retrieved, and the manifest's
\* --persist-uri is that URI
C15_PersistUriOfLoggedDb ==
    /\ [](manifest_file.exists =>
            /\ manifest_file.persist_uri = uri
            /\ uri = "s3://mlflow/artifacts/db"
            /\ artifact_db.exists
            /\ artifact_db = db_dir
            /\ mlflow_call = Returned /\ ~result02.raised)
    /\ [][/\ artifact_db' # artifact_db => (mlflow_call = Returned /\ uri = "")
          /\ uri' # uri => (artifact_db.exists /\ ~manifest_file.exists)
          /\ manifest_file' # manifest_file => manifest_file'.persist_uri = uri]_vars

\* the manifest is written with the URI of the logged directory
C15_Witness ==
    /\ manifest_file.exists
    /\ manifest_file.persist_uri # ""
    /\ artifact_db.entries # <<>>

(***************************************************************************)
(* Notebook 01: the loading cell on its own                                *)
(***************************************************************************)
loadRest == <<pc01, texts, chunkVars, storeVars, nb02Vars, serviceVars, bikeVars,
              routerVars, deployVars, trainVars>>

LoadDocs ==
    /\ pcLoad = "load_docs"
    /\ loaded' = load_docs(source_dir)
    /\ pcLoad' = "done"
    /\ UNCHANGED <<source_dir, loadRest>>

InitLoad ==
    /\ pc01 = "process_docs"
    /\ docs = <<>>
    /\ chunk_size = 1
    /\ chunk_overlap = 0
    /\ texts = <<>>
    /\ StoreIdle
    /\ embed_fn = [t \in {replace_newlines(u) : u \in Texts} |-> 0]
    /\ Nb02Idle
    /\ BikeIdle
    /\ RouterIdle
    /\ pcLoad = "load_docs"
    /\ source_dir \in SUBSET Files
    /\ loaded = {}
    /\ DeployIdle
    /\ TrainIdle

NextLoad == LoadDocs

SpecLoad == InitLoad /\ [][NextLoad]_vars

\* C11: load_docs loads every .txt file under source_dir, those in its
\* subdirectories at any depth included, and no file that is not a .txt file
C11_LoadDocsRecursive ==
    pcLoad = "done" => loaded = {f \in source_dir : f.ext = "txt"}

(***************************************************************************)
(* Properties of the store (Spec)                                          *)
(***************************************************************************)
Range(f) == {f[i] : i \in DOMAIN f}

IsPrefix(s, t) == Len(s) <= Len(t) /\ SubSeq(t, 1, Len(s)) = s

\* result holds min(k, size of index) distinct stored entries and no stored
\* entry outside it is strictly nearer to qvec than one inside it
TopK(result, index, qvec, k) ==
    /\ Len(result) = (IF k < Len(index) THEN k ELSE Len(index))
    /\ \A i \in 1..Len(result) : result[i] \in Range(index)
    /\ \A i, j \in 1..Len(result) : i # j => result[i].id # result[j].id
    /\ \A e \in Range(index) :
          (\A i \in 1..Len(result) : result[i].id # e.id) =>
              \A i \in 1..Len(result) :
                  Distance(e.embedding.vec, qvec) >= Distance(result[i].embedding.vec, qvec)

SelfQuery ==
    /\ pc01 = "done"
    /\ query.k = 1
    /\ \E e \in Range(db_index) : e.page_content = query.text

Queried == query # NoQuery \/ vs_request # NoRequest

\* the step serves a query
QueryStep == query' # query \/ vs_request' # vs_request

\* C4: a query is served only from a store that is populated and
\* persisted; the collection and its persisted copy change in one step each,
\* before any query.
C4_IngestBeforeQuery ==
    [][/\ QueryStep => (db_index # <<>> /\ db_dir = Directory(db_index))
       /\ vs_request' # vs_request =>
              (served_index.up /\ served_index.entries = db_index)
       /\ db_index' # db_index => (~Queried /\ db_index = <<>>)
       /\ db_dir' # db_dir => (~Queried /\ db_dir = NoDirectory)]_vars

\* both the notebook and the service have answered a query
C4_Witness ==
    /\ query # NoQuery /\ matches # <<>>
    /\ vs_request # NoRequest /\ vs_response # <<>>

Ingested == pc01 \in {"persist", "similarity_search", "done"}

\* C5: after ingestion the collection holds one entry with one embedding per
\* chunk, each computed from the chunk's text by the model the store was
\* built with, and a query is embedded by that same model.
C5_OneEmbeddingOneModel ==
    /\ Ingested =>
          /\ Len(db_index) = Len(texts)
          /\ \A i \in 1..Len(texts) :
                /\ db_index[i].page_content = texts[i].page_content
                /\ db_index[i].embedding =
                      [vec |-> encode(texts[i].page_content),
                       model |-> db_embedding.model_name]
          /\ \A i, j \in 1..Len(db_index) : i # j => db_index[i].id # db_index[j].id
    /\ query # NoQuery =>
          /\ query.embedding.model = db_embedding.model_name
          /\ query.embedding.vec = encode(query.text)
          /\ \A e \in Range(db_index) : e.embedding.model = query.embedding.model

\* several chunks are stored and a query has been embedded
C5_Witness ==
    /\ Ingested
    /\ Len(db_index) >= 2
    /\ query # NoQuery
    /\ query.embedding.model = EmbeddingsModel

\* C7: the collection and its copies only grow, entry by entry unchanged,
\* and serving a query changes none of them.
C7_IndexOnlyGrows ==
    [][/\ IsPrefix(db_index, db_index')
       /\ db_dir.exists => (db_dir'.exists /\ IsPrefix(db_dir.entries, db_dir'.entries))
       /\ artifact_db.exists =>
              (artifact_db'.exists /\ IsPrefix(artifact_db.entries, artifact_db'.entries))
       /\ served_index.up =>
              (served_index'.up /\ IsPrefix(served_index.entries, served_index'.entries))
       /\ QueryStep => UNCHANGED <<db_index, db_dir, artifact_db, served_index>>]_vars

\* a query returned entries of a populated collection, which is still whole
C7_Witness ==
    /\ pc01 = "done"
    /\ Len(matches) >= 1
    /\ Len(db_index) = Len(texts)
    /\ vs_request # NoRequest

(***************************************************************************)
(* Notebook 01 with a larger corpus: the retrieval test (SpecRetrieve)     *)
(***************************************************************************)
MaxStored == 5

StoredLists ==
    UNION {[1..n -> Texts] : n \in 1..MaxStored}

InitRetrieve ==
    /\ pc01 = "embeddings"
    /\ docs = <<>>
    /\ chunk_size = 1
    /\ chunk_overlap = 0
    /\ \E contents \in StoredLists : texts = AsChunks(contents)
    /\ StoreIdle
    /\ Nb02Idle
    /\ BikeIdle
    /\ RouterIdle
    /\ LaterIdle

NextRetrieve ==
    \/ LoadEmbeddings
    \/ FromDocuments
    \/ Persist
    \/ SimilaritySearchDefault

SpecRetrieve == InitRetrieve /\ [][NextRetrieve]_vars

TransformerSteps ==
    <<"extract", "post_vectorstore", "receive_context", "combine", "forward",
      "predictor_response", "return">>

C9_FailureSurfacedNoRetry ==
    /\ client_posts <= 1
    /\ tr.vs_calls <= 1
    /\ tr.llm_calls <= 1
    /\ (tr.failure # "" /\ tr.llm_calls = 0) => tr.steps = <<"extract", "post_vectorstore">>
    /\ (tr.failure # "" /\ tr.llm_calls = 1) => tr.steps = SubSeq(TransformerSteps, 1, 5)
    /\ (tr.failure # "" /\ pc05 = "done") =>
          llm_response = [status |-> "error", body |-> tr.failure]
    /\ llm_response.status = "error" => (pc05 = "done" /\ llm_response.body = tr.failure)
    /\ pc05 = "raised" => (client_error \in Failures /\ tr = TransformerIdle)

\* the generation call failed after the vector store had answered, and the
\* caller has the failure
C9_Witness ==
    /\ pc05 = "done"
    /\ tr.failure = "Timeout"
    /\ tr.vs_calls = 1
    /\ tr.llm_calls = 1
    /\ llm_response = [status |-> "error", body |-> "Timeout"]

(***************************************************************************)
(* Properties of the experiment helper (SpecExp)                           *)
(***************************************************************************)
\* how the claim says a call of the helper ends, given what
\* mlflow.set_experiment did
WrapsFailure(call, result) ==
    /\ (call.raised /\ IsException(call.class)) =>
          /\ result.raised
          /\ result.class = "RuntimeError"
          /\ result.message = "Failed to set the experiment: " \o call.message
    /\ (call # NotCalled /\ ~call.raised) => ~result.raised

\* C10: when mlflow.set_experiment raises an Exception e, both helpers
\* raise RuntimeError("Failed to set the experiment: " + str(e)); when it
\* returns, they return and raise nothing.
C10_ExperimentFailureWrapped ==
    /\ WrapsFailure(mlflow_call, result02)
    /\ WrapsFailure(bike_call, bike_result)
    /\ pc02 = "error" => result02.raised
    /\ pcBike = "error" => bike_result.raised

\* one helper has wrapped a failure with a message, the other has returned
C10_Witness ==
    /\ mlflow_call = [raised |-> TRUE, class |-> "MlflowException",
                      message |-> "RESOURCE_DOES_NOT_EXIST"]
    /\ result02.message = "Failed to set the experiment: RESOURCE_DOES_NOT_EXIST"
    /\ bike_call = Returned
    /\ pcBike = "load_dataset"

====
